---- MODULE Spec2Model ----
(***************************************************************************)
(* Model of the eco-goinfra builders:                                      *)
(*   - pkg/ibgu/ibgu.go: IbguBuilder (NewIbguBuilder, With*, Get, Exists,  *)
(*     Create, Delete, validate) against a cluster holding at most one     *)
(*     ImageBasedGroupUpgrade under the builder's name and namespace;      *)
(*   - the SR-IOV helpers ListPolicy and CleanAllNetworkNodePolicies;      *)
(*   - pkg/sriov-fec/nodeconfig.go: NewNodeConfigBuilder.                  *)
(*                                                                         *)
(* Pointers are modelled explicitly: Definition and Object are addresses   *)
(* into a two-cell heap ("def": the struct allocated by the constructor,   *)
(* "obj": the struct most recently allocated by Get and kept in Object),   *)
(* so that `builder.Object = builder.Definition` is the aliasing it is in  *)
(* Go.  Errors are strings, "" being the nil error.                        *)
(***************************************************************************)
EXTENDS Integers, Sequences, FiniteSets, TLC

VARIABLES
    builder,    \* the IbguBuilder: isNil, Definition, Object, apiClient, errorMsg, heap
    cluster,    \* the ImageBasedGroupUpgrade resources stored by the API server
    call,       \* the latest call on the builder: op, arguments, results, requests issued
    clean,      \* the state of one ListPolicy or CleanAllNetworkNodePolicies run
    nodeConfig  \* the arguments and the result of one NewNodeConfigBuilder call

vars == <<builder, cluster, call, clean, nodeConfig>>

----------------------------------------------------------------------------
(* Bounds of the model. *)

\* WithOadpContent and WithPlan are not called once OADPContent and Plan together
\* hold this many entries.
MaxEntries == 2
\* The list call returns at most this many policies.
MaxPolicies == 3

----------------------------------------------------------------------------
(* Values. *)

NilPtr == "nil"
DefAddr == "def"
ObjAddr == "obj"

NoError == ""
ErrNotFound == "not found"
ErrAlreadyExists == "already exists"
ErrServer == "internal error"

\* k8serrors.IsNotFound
IsNotFound(err) == err = ErrNotFound

\* &v1alpha1.ImageBasedGroupUpgrade{}
ZeroIbgu ==
    [ Name |-> "", Namespace |-> "",
      Spec |-> [ ClusterLabelSelectors |-> <<>>,
                 IBUSpec |-> [ SeedImageRef |-> [Image |-> "", Version |-> ""],
                               OADPContent |-> <<>> ],
                 Plan |-> <<>> ] ]

\* The arguments the caller may pass.
NameArgs == {"", "ibgu"}
NsArgs == {"", "ns"}
LabelArgs == { {}, {<<"site", "edge">>} }
SeedArgs == { <<"", "4.16">>, <<"quay.io/seed", "">>, <<"quay.io/seed", "4.16">> }
OadpArgs == { <<"", "openshift-adp">>, <<"oadp-cm", "">>, <<"oadp-cm", "openshift-adp">> }
PlanArgs == { <<<<>>, 1, 1>>, <<<<"Prep">>, 0, 1>>, <<<<"Prep">>, 1, 0>>,
              <<<<"Prep">>, 1, 1>>, <<<<"Upgrade">>, 1, 1>> }

\* How the API server answers a request: normally, or with a failure of its own.
Outcomes == {"ok", "fail"}

----------------------------------------------------------------------------
(* The API client (controller-runtime), as the builder uses it. *)

Lookup(store, name, nsname) == {r \in store : r.Name = name /\ r.Namespace = nsname}

\* apiClient.Get(ctx, ObjectKey{Name, Namespace}, out)
ClientGet(store, name, nsname, outcome) ==
    IF outcome = "fail" THEN [err |-> ErrServer, obj |-> <<>>]
    ELSE IF Lookup(store, name, nsname) = {} THEN [err |-> ErrNotFound, obj |-> <<>>]
    ELSE [err |-> NoError, obj |-> <<CHOOSE r \in Lookup(store, name, nsname) : TRUE>>]

\* apiClient.Create(ctx, obj)
ClientCreate(store, obj, outcome) ==
    IF outcome = "fail" THEN [err |-> ErrServer, store |-> store]
    ELSE IF Lookup(store, obj.Name, obj.Namespace) # {}
         THEN [err |-> ErrAlreadyExists, store |-> store]
    ELSE [err |-> NoError, store |-> store \cup {obj}]

\* apiClient.Delete(ctx, obj), obj the pointer's target, <<>> for a nil pointer.  A
\* client that goes on to serve the request reads the object's name and namespace,
\* which panics on a nil *ImageBasedGroupUpgrade.
ClientDelete(store, obj, outcome) ==
    IF outcome = "fail" THEN [err |-> ErrServer, store |-> store, panic |-> FALSE]
    ELSE IF obj = <<>> THEN [err |-> NoError, store |-> store, panic |-> TRUE]
    ELSE IF Lookup(store, obj[1].Name, obj[1].Namespace) = {}
         THEN [err |-> ErrNotFound, store |-> store, panic |-> FALSE]
    ELSE [err |-> NoError, store |-> store \ Lookup(store, obj[1].Name, obj[1].Namespace),
          panic |-> FALSE]

----------------------------------------------------------------------------
(* IbguBuilder. *)

\* The value a pointer of the builder points to (a one-element sequence), <<>> for nil.
Deref(b, ptr) == IF ptr = NilPtr THEN <<>> ELSE <<b.heap[ptr]>>

\* The nil *IbguBuilder.
NilBuilder ==
    [ isNil |-> TRUE, Definition |-> NilPtr, Object |-> NilPtr, apiClient |-> FALSE,
      errorMsg |-> "", heap |-> [def |-> ZeroIbgu, obj |-> ZeroIbgu] ]

\* NewIbguBuilder giving no builder at all for an empty name or namespace.
NewIbguBuilderRejectingEmpty(haveClient, schemeErr, name, nsname) ==
    IF ~haveClient \/ schemeErr \/ name = "" \/ nsname = "" THEN NilBuilder
    ELSE [ isNil |-> FALSE,
           Definition |-> DefAddr,
           Object |-> NilPtr,
           apiClient |-> TRUE,
           errorMsg |-> "",
           heap |-> [ def |-> [ZeroIbgu EXCEPT !.Name = name, !.Namespace = nsname],
                      obj |-> ZeroIbgu ] ]

NewIbguBuilder(haveClient, schemeErr, name, nsname) ==
    IF ~haveClient THEN NilBuilder
    ELSE IF schemeErr THEN NilBuilder
    ELSE [ isNil |-> FALSE,
           Definition |-> DefAddr,
           Object |-> NilPtr,
           apiClient |-> TRUE,
           errorMsg |-> IF name = "" THEN "ibgu 'name' cannot be empty"
                        ELSE IF nsname = "" THEN "ibgu 'nsname' cannot be empty"
                        ELSE "",
           heap |-> [ def |-> [ZeroIbgu EXCEPT !.Name = name, !.Namespace = nsname],
                      obj |-> ZeroIbgu ] ]

\* &IbguBuilder{Definition: ..., apiClient: ..., errorMsg: ...}: a builder written as
\* a composite literal, or a constructed one whose exported Definition was set to nil.
IbguBuilderLiteral(haveDefinition, haveClient, errorMsg) ==
    [ isNil |-> FALSE,
      Definition |-> IF haveDefinition THEN DefAddr ELSE NilPtr,
      Object |-> NilPtr,
      apiClient |-> haveClient,
      errorMsg |-> errorMsg,
      heap |-> [ def |-> IF haveDefinition
                         THEN [ZeroIbgu EXCEPT !.Name = "ibgu", !.Namespace = "ns"]
                         ELSE ZeroIbgu,
                 obj |-> ZeroIbgu ] ]

\* msg.UndefinedCrdObjectErrString
UndefinedCrdObjectErrString(crd) == "can not redefine the undefined " \o crd

\* validate looking at the deferred error before the API client.
validateErrorMsgBeforeClient(b) ==
    IF b.isNil THEN [valid |-> FALSE, err |-> "error: received nil ibgu builder"]
    ELSE IF b.Definition = NilPtr
         THEN [valid |-> FALSE, err |-> UndefinedCrdObjectErrString("ibgu")]
    ELSE IF b.errorMsg # "" THEN [valid |-> FALSE, err |-> b.errorMsg]
    ELSE IF ~b.apiClient
         THEN [valid |-> FALSE, err |-> "ibgu builder cannot have nil apiClient"]
    ELSE [valid |-> TRUE, err |-> NoError]

\* validate without its last check: a recorded error no longer stops a call.
validateIgnoringErrorMsg(b) ==
    IF b.isNil THEN [valid |-> FALSE, err |-> "error: received nil ibgu builder"]
    ELSE IF b.Definition = NilPtr
         THEN [valid |-> FALSE, err |-> UndefinedCrdObjectErrString("ibgu")]
    ELSE IF ~b.apiClient
         THEN [valid |-> FALSE, err |-> "ibgu builder cannot have nil apiClient"]
    ELSE [valid |-> TRUE, err |-> NoError]

validate(b) ==
    IF b.isNil THEN [valid |-> FALSE, err |-> "error: received nil ibgu builder"]
    ELSE IF b.Definition = NilPtr
         THEN [valid |-> FALSE, err |-> UndefinedCrdObjectErrString("ibgu")]
    ELSE IF ~b.apiClient
         THEN [valid |-> FALSE, err |-> "ibgu builder cannot have nil apiClient"]
    ELSE IF b.errorMsg # "" THEN [valid |-> FALSE, err |-> b.errorMsg]
    ELSE [valid |-> TRUE, err |-> NoError]

\* builder.Definition.<field> = v, through the Definition pointer
SetDef(b, d) == [b EXCEPT !.heap[b.Definition] = d]
Def(b) == b.heap[b.Definition]

WithClusterLabelSelectors(b, labels) ==
    IF ~validate(b).valid THEN b
    ELSE IF Cardinality(labels) = 0
         THEN [b EXCEPT !.errorMsg = "can not apply empty cluster label selectors to the IBGU"]
    ELSE SetDef(b, [Def(b) EXCEPT !.Spec.ClusterLabelSelectors = <<[MatchLabels |-> labels]>>])

WithSeedImageRef(b, seedImage, seedVersion) ==
    IF ~validate(b).valid THEN b
    ELSE IF seedImage = "" THEN [b EXCEPT !.errorMsg = "seedImage cannot be empty"]
    ELSE IF seedVersion = "" THEN [b EXCEPT !.errorMsg = "seedVersion cannot be empty"]
    ELSE SetDef(b, [Def(b) EXCEPT !.Spec.IBUSpec =
                        [ SeedImageRef |-> [Image |-> seedImage, Version |-> seedVersion],
                          OADPContent |-> <<>> ]])

WithOadpContent(b, name, namespace) ==
    IF ~validate(b).valid THEN b
    ELSE IF name = "" THEN [b EXCEPT !.errorMsg = "oadp content name cannot be empty"]
    ELSE IF namespace = ""
         THEN [b EXCEPT !.errorMsg = "oadp content namespace cannot be empty"]
    ELSE SetDef(b, [Def(b) EXCEPT !.Spec.IBUSpec.OADPContent =
                        Append(@, [Name |-> name, Namespace |-> namespace])])

\* WithPlan keeping one entry per distinct plan item.
WithPlanDeduplicating(b, actions, maxConcurrency, timeout) ==
    LET plan == [ Actions |-> actions,
                  RolloutStrategy |-> [MaxConcurrency |-> maxConcurrency, Timeout |-> timeout] ]
    IN  IF ~validate(b).valid THEN b
        ELSE IF Len(actions) = 0 THEN [b EXCEPT !.errorMsg = "plan actions cannot be empty"]
        ELSE IF maxConcurrency <= 0
             THEN [b EXCEPT !.errorMsg = "maxConcurrency must be greater than 0"]
        ELSE IF timeout <= 0 THEN [b EXCEPT !.errorMsg = "timeout must be greater than 0"]
        ELSE IF \E i \in 1..Len(b.heap[b.Definition].Spec.Plan) :
                    b.heap[b.Definition].Spec.Plan[i] = plan
             THEN b
        ELSE [b EXCEPT !.heap[b.Definition].Spec.Plan = Append(@, plan)]

WithPlan(b, actions, maxConcurrency, timeout) ==
    IF ~validate(b).valid THEN b
    ELSE IF Len(actions) = 0 THEN [b EXCEPT !.errorMsg = "plan actions cannot be empty"]
    ELSE IF maxConcurrency <= 0
         THEN [b EXCEPT !.errorMsg = "maxConcurrency must be greater than 0"]
    ELSE IF timeout <= 0 THEN [b EXCEPT !.errorMsg = "timeout must be greater than 0"]
    ELSE SetDef(b, [Def(b) EXCEPT !.Spec.Plan =
                        Append(@, [ Actions |-> actions,
                                    RolloutStrategy |-> [ MaxConcurrency |-> maxConcurrency,
                                                          Timeout |-> timeout ] ])])

\* One request on the API client, as the call that issued it recorded it.
Request(verb, name, nsname, obj, err) ==
    [verb |-> verb, name |-> name, namespace |-> nsname, obj |-> obj, err |-> err]

\* Get that keeps what it fetched in Object, as Exists does.
GetStoringObject(b, store, getOutcome) ==
    IF ~validate(b).valid
    THEN [b |-> b, obj |-> <<>>, err |-> validate(b).err, reqs |-> <<>>]
    ELSE LET r == ClientGet(store, Def(b).Name, Def(b).Namespace, getOutcome)
         IN  [ b |-> IF r.err # NoError THEN [b EXCEPT !.Object = NilPtr, !.heap.obj = ZeroIbgu]
                     ELSE [b EXCEPT !.Object = ObjAddr, !.heap.obj = r.obj[1]],
               obj |-> IF r.err # NoError THEN <<>> ELSE r.obj,
               err |-> r.err,
               reqs |-> <<Request("get", Def(b).Name, Def(b).Namespace, <<>>, r.err)>> ]

\* The builder after the call, the pointer's target and the error returned, and
\* the requests issued.
Get(b, store, getOutcome) ==
    IF ~validate(b).valid
    THEN [b |-> b, obj |-> <<>>, err |-> validate(b).err, reqs |-> <<>>]
    ELSE LET r == ClientGet(store, Def(b).Name, Def(b).Namespace, getOutcome)
         IN  [ b |-> b,
               obj |-> IF r.err # NoError THEN <<>> ELSE r.obj,
               err |-> r.err,
               reqs |-> <<Request("get", Def(b).Name, Def(b).Namespace, <<>>, r.err)>> ]

\* builder.Object = p, p the pointer Get returned (a fresh struct, or nil)
StoreFetched(b, obj) ==
    IF obj = <<>> THEN [b EXCEPT !.Object = NilPtr, !.heap.obj = ZeroIbgu]
    ELSE [b EXCEPT !.Object = ObjAddr, !.heap.obj = obj[1]]

\* Exists that reports true only when Get returned no error.
ExistsOnlyOnSuccess(b, store, getOutcome) ==
    IF ~validate(b).valid THEN [b |-> b, ok |-> FALSE, reqs |-> <<>>]
    ELSE LET g == Get(b, store, getOutcome)
         IN  [ b |-> StoreFetched(g.b, g.obj),
               ok |-> (g.err = NoError),
               reqs |-> g.reqs ]

Exists(b, store, getOutcome) ==
    IF ~validate(b).valid THEN [b |-> b, ok |-> FALSE, reqs |-> <<>>]
    ELSE LET g == Get(b, store, getOutcome)
         IN  [ b |-> StoreFetched(g.b, g.obj),
               ok |-> (g.err = NoError \/ ~IsNotFound(g.err)),
               reqs |-> g.reqs ]

\* builder.Object = builder.Definition: Object becomes an alias of Definition
AliasDefinition(b) == [b EXCEPT !.Object = b.Definition, !.heap.obj = ZeroIbgu]

\* Create without the Exists check: the create request is always issued.
CreateAlways(b, store, getOutcome, createOutcome) ==
    IF ~validate(b).valid
    THEN [b |-> b, store |-> store, err |-> validate(b).err, reqs |-> <<>>]
    ELSE LET c == ClientCreate(store, Def(b), createOutcome)
             rq == Request("create", Def(b).Name, Def(b).Namespace, <<Def(b)>>, c.err)
         IN  [ b |-> IF c.err = NoError THEN AliasDefinition(b) ELSE b,
               store |-> c.store,
               err |-> c.err,
               reqs |-> <<rq>> ]

\* Create sending the create request a second time when the first one fails.
CreateRetrying(b, store, getOutcome, createOutcome) ==
    IF ~validate(b).valid
    THEN [b |-> b, store |-> store, err |-> validate(b).err, reqs |-> <<>>]
    ELSE LET e == Exists(b, store, getOutcome)
         IN  IF e.ok
             THEN [b |-> e.b, store |-> store, err |-> NoError, reqs |-> e.reqs]
             ELSE LET c == ClientCreate(store, Def(e.b), createOutcome)
                      rq == Request("create", Def(e.b).Name, Def(e.b).Namespace,
                                    <<Def(e.b)>>, c.err)
                  IN  [ b |-> IF c.err = NoError THEN AliasDefinition(e.b) ELSE e.b,
                        store |-> c.store,
                        err |-> c.err,
                        reqs |-> IF c.err = NoError THEN Append(e.reqs, rq)
                                 ELSE Append(Append(e.reqs, rq), rq) ]

Create(b, store, getOutcome, createOutcome) ==
    IF ~validate(b).valid
    THEN [b |-> b, store |-> store, err |-> validate(b).err, reqs |-> <<>>]
    ELSE LET e == Exists(b, store, getOutcome)
         IN  IF e.ok
             THEN [b |-> e.b, store |-> store, err |-> NoError, reqs |-> e.reqs]
             ELSE LET c == ClientCreate(store, Def(e.b), createOutcome)
                      rq == Request("create", Def(e.b).Name, Def(e.b).Namespace,
                                    <<Def(e.b)>>, c.err)
                  IN  [ b |-> IF c.err = NoError THEN AliasDefinition(e.b) ELSE e.b,
                        store |-> c.store,
                        err |-> c.err,
                        reqs |-> Append(e.reqs, rq) ]

\* builder.Object = nil
ClearObject(b) == [b EXCEPT !.Object = NilPtr, !.heap.obj = ZeroIbgu]

\* Delete that clears Object whatever the delete request returned.
DeleteClearingAlways(b, store, getOutcome, deleteOutcome) ==
    IF ~validate(b).valid
    THEN [b |-> b, store |-> store, err |-> validate(b).err, reqs |-> <<>>, panic |-> FALSE]
    ELSE LET e == Exists(b, store, getOutcome)
         IN  IF ~e.ok
             THEN [b |-> ClearObject(e.b), store |-> store, err |-> NoError,
                   reqs |-> e.reqs, panic |-> FALSE]
             ELSE LET o == Deref(e.b, e.b.Object)
                      d == ClientDelete(store, o, deleteOutcome)
                      rq == Request("delete", Def(e.b).Name, Def(e.b).Namespace, o, d.err)
                  IN  [ b |-> ClearObject(e.b),
                        store |-> d.store,
                        err |-> d.err,
                        reqs |-> Append(e.reqs, rq),
                        panic |-> d.panic ]

Delete(b, store, getOutcome, deleteOutcome) ==
    IF ~validate(b).valid
    THEN [b |-> b, store |-> store, err |-> validate(b).err, reqs |-> <<>>, panic |-> FALSE]
    ELSE LET e == Exists(b, store, getOutcome)
         IN  IF ~e.ok
             THEN [b |-> ClearObject(e.b), store |-> store, err |-> NoError,
                   reqs |-> e.reqs, panic |-> FALSE]
             ELSE LET o == Deref(e.b, e.b.Object)
                      d == ClientDelete(store, o, deleteOutcome)
                      rq == Request("delete", Def(e.b).Name, Def(e.b).Namespace, o, d.err)
                  IN  [ b |-> IF d.err # NoError \/ d.panic THEN e.b ELSE ClearObject(e.b),
                        store |-> d.store,
                        err |-> d.err,
                        reqs |-> Append(e.reqs, rq),
                        panic |-> d.panic ]

----------------------------------------------------------------------------
(* SR-IOV: ListPolicy and CleanAllNetworkNodePolicies.  The API server holds the   *)
(* SriovNetworkNodePolicies of the namespace as a sequence, the order in which a   *)
(* list call returns them.                                                          *)

PolicyNames == {"default", "a", "b", "c"}
OperatorNsArgs == {"", "sriov-ns"}
ErrEmptyListNs == "failed to list SriovNetworkNodePolicies, 'nsname' parameter is empty"
ErrEmptyCleanNs == "failed to clean up SriovNetworkNodePolicies, 'operatornsname' parameter is empty"

RECURSIVE DistinctSeqs(_, _)
\* The sequences of at most n distinct elements of S.
DistinctSeqs(S, n) ==
    IF n = 0 THEN {<<>>}
    ELSE LET shorter == DistinctSeqs(S, n - 1)
             Fresh(q) == { x \in S : \A i \in 1..Len(q) : q[i] # x }
         IN  shorter \cup UNION { { Append(q, x) : x \in Fresh(q) } : q \in shorter }

\* The policies a namespace can hold: names are unique within a namespace.
PolicyStores == { [i \in 1..Len(q) |-> [Name |-> q[i], Namespace |-> "sriov-ns"]] :
                    q \in DistinctSeqs(PolicyNames, MaxPolicies) }

\* apiClient.SriovNetworkNodePolicies(nsname).List(ctx, options)
ClientList(store, nsname, outcome) ==
    IF outcome = "fail" THEN [err |-> ErrServer, Items |-> <<>>]
    ELSE [err |-> NoError, Items |-> SelectSeq(store, LAMBDA p : p.Namespace = nsname)]

\* ListPolicy without the check of its namespace argument.
ListPolicyAnyNamespace(store, nsname, listOutcome) ==
    LET l == ClientList(store, nsname, listOutcome)
    IN  IF l.err # NoError
        THEN [builders |-> <<>>, copies |-> <<>>, err |-> l.err, lists |-> 1]
        ELSE [ builders |-> [k \in 1..Len(l.Items) |-> [Object |-> k, Definition |-> k]],
               copies |-> [k \in 1..Len(l.Items) |-> l.Items[k]],
               err |-> NoError,
               lists |-> 1 ]

\* ListPolicy taking the address of the loop variable itself, one variable for all
\* iterations: every builder points to it and it ends holding the last item.
ListPolicySharingLoopVariable(store, nsname, listOutcome) ==
    IF nsname = "" THEN [builders |-> <<>>, copies |-> <<>>, err |-> ErrEmptyListNs, lists |-> 0]
    ELSE LET l == ClientList(store, nsname, listOutcome)
         IN  IF l.err # NoError
             THEN [builders |-> <<>>, copies |-> <<>>, err |-> l.err, lists |-> 1]
             ELSE [ builders |-> [k \in 1..Len(l.Items) |-> [Object |-> 1, Definition |-> 1]],
                    copies |-> IF Len(l.Items) = 0 THEN <<>> ELSE <<l.Items[Len(l.Items)]>>,
                    err |-> NoError,
                    lists |-> 1 ]

\* The PolicyBuilders of ListPolicy: Object and Definition hold the address of the
\* loop's copiedNetworkNodePolicy, one fresh variable per iteration; copies[k] is
\* the struct at address k.
ListPolicy(store, nsname, listOutcome) ==
    IF nsname = "" THEN [builders |-> <<>>, copies |-> <<>>, err |-> ErrEmptyListNs, lists |-> 0]
    ELSE LET l == ClientList(store, nsname, listOutcome)
         IN  IF l.err # NoError
             THEN [builders |-> <<>>, copies |-> <<>>, err |-> l.err, lists |-> 1]
             ELSE [ builders |-> [k \in 1..Len(l.Items) |-> [Object |-> k, Definition |-> k]],
                    copies |-> [k \in 1..Len(l.Items) |-> l.Items[k]],
                    err |-> NoError,
                    lists |-> 1 ]

RemovePolicy(store, name, nsname) ==
    SelectSeq(store, LAMBDA p : ~(p.Name = name /\ p.Namespace = nsname))

\* PolicyBuilder.Delete on the policy `object`: the delete request fails for the
\* names in `failing`; otherwise the policy is gone from the server afterwards.
PolicyDelete(store, object, failing) ==
    IF object.Name \in failing THEN [err |-> ErrServer, store |-> store]
    ELSE [err |-> NoError, store |-> RemovePolicy(store, object.Name, object.Namespace)]

\* No policy is spared.
IsDeletableAny(object) == object.Name = object.Name

\* if policy.Object.Name != "default"
IsDeletable(object) == object.Name # "default"

RECURSIVE CleanLoopContinuing(_, _, _, _, _, _)
\* The loop going on to the next policy after a failed deletion.
CleanLoopContinuing(l, k, store, failing, attempted, lists) ==
    IF k > Len(l.builders)
    THEN [err |-> IF \E i \in 1..Len(attempted) : attempted[i] \in failing
                  THEN ErrServer ELSE NoError,
          attempted |-> attempted, store |-> store, lists |-> lists]
    ELSE LET object == l.copies[l.builders[k].Object]
         IN  IF IsDeletable(object)
             THEN CleanLoopContinuing(l, k + 1, PolicyDelete(store, object, failing).store,
                                      failing, Append(attempted, object.Name), lists)
             ELSE CleanLoopContinuing(l, k + 1, store, failing, attempted, lists)

RECURSIVE CleanLoop(_, _, _, _, _, _)
\* for _, policy := range policies, from the k-th policy on: the Delete calls made
\* so far (the names, in call order), the server's policies, the error returned.
CleanLoop(l, k, store, failing, attempted, lists) ==
    IF k > Len(l.builders)
    THEN [err |-> NoError, attempted |-> attempted, store |-> store, lists |-> lists]
    ELSE LET object == l.copies[l.builders[k].Object]
         IN  IF IsDeletable(object)
             THEN LET d == PolicyDelete(store, object, failing)
                  IN  IF d.err # NoError
                      THEN [err |-> d.err, attempted |-> Append(attempted, object.Name),
                            store |-> d.store, lists |-> lists]
                      ELSE CleanLoop(l, k + 1, d.store, failing,
                                     Append(attempted, object.Name), lists)
             ELSE CleanLoop(l, k + 1, store, failing, attempted, lists)

CleanAllNetworkNodePolicies(store, operatornsname, listOutcome, failing) ==
    IF operatornsname = ""
    THEN [err |-> ErrEmptyCleanNs, attempted |-> <<>>, store |-> store, lists |-> 0]
    ELSE LET l == ListPolicy(store, operatornsname, listOutcome)
         IN  IF l.err # NoError
             THEN [err |-> l.err, attempted |-> <<>>, store |-> store, lists |-> l.lists]
             ELSE CleanLoop(l, 1, store, failing, <<>>, l.lists)

\* No run of CleanAllNetworkNodePolicies.
CleanIdle ==
    [ pc |-> "idle", nsname |-> "", listOutcome |-> "ok", failing |-> {},
      before |-> <<>>, store |-> <<>>, attempted |-> <<>>, lists |-> 0, err |-> NoError,
      builders |-> <<>>, copies |-> <<>> ]

----------------------------------------------------------------------------
(* SR-IOV FEC: NodeConfigBuilder, of which the repository holds the constructor. *)

NodeNameArgs == {"", "worker-0", "worker-1", "worker-2", "worker-3"}
FecNsArgs == {"", "vran-acceleration-operators", "openshift-operators", "default", "fec", "ns"}
ErrEmptyNodeName == "SriovFecNodeConfig 'nodeName' is empty"
ErrEmptyFecNs == "SriovFecNodeConfig 'nsname' is empty"

\* The builder is allocated whatever the arguments are; the two checks follow one
\* another without a return in between, each assigning errorMsg.
NewNodeConfigBuilder(haveClient, nodeName, nsname) ==
    LET made == [ isNil |-> FALSE, Objects |-> NilPtr, apiClient |-> haveClient,
                  nodeName |-> nodeName, nsName |-> nsname, errorMsg |-> NoError ]
        afterNodeName == IF nodeName = "" THEN [made EXCEPT !.errorMsg = ErrEmptyNodeName]
                         ELSE made
    IN  IF nsname = "" THEN [afterNodeName EXCEPT !.errorMsg = ErrEmptyFecNs]
        ELSE afterNodeName

\* No call of NewNodeConfigBuilder.
NodeConfigIdle ==
    [ pc |-> "idle", haveClient |-> FALSE, nodeName |-> "", nsname |-> "",
      made |-> [isNil |-> TRUE] ]

----------------------------------------------------------------------------
(* The calls on the builder, as steps. *)

\* The record of a call: the operation, the error and the boolean it returned, the
\* object it returned, the requests it issued, and whether it panicked.
Call(op, err, ok, ret, reqs, panic) ==
    [ op |-> op, args |-> <<>>, err |-> err, ok |-> ok, ret |-> ret, reqs |-> reqs,
      panic |-> panic ]

\* The resource of the builder's name, as somebody else created it.
Existing == [ZeroIbgu EXCEPT !.Name = "ibgu", !.Namespace = "ns"]

\* The messages a composite literal of the model carries in errorMsg.
LiteralErrors == {NoError, "ibgu 'name' cannot be empty"}

\* The builder comes from NewIbguBuilder, whose arguments the first call record
\* keeps, or from a composite literal.
Init ==
    /\ \/ \E c \in BOOLEAN, s \in BOOLEAN, n \in NameArgs, ns \in NsArgs :
             /\ builder = NewIbguBuilder(c, s, n, ns)
             /\ call = [Call("NewIbguBuilder", NoError, FALSE, <<>>, <<>>, FALSE)
                           EXCEPT !.args = <<c, s, n, ns>>]
       \/ \E d \in BOOLEAN, c \in BOOLEAN, m \in LiteralErrors :
             /\ builder = IbguBuilderLiteral(d, c, m)
             /\ call = Call("IbguBuilder{}", NoError, FALSE, <<>>, <<>>, FALSE)
    /\ cluster \in { {}, {Existing} }
    /\ clean = CleanIdle
    /\ nodeConfig = NodeConfigIdle

Alive == ~call.panic

OadpLen(b) == IF b.isNil \/ b.Definition = NilPtr THEN 0
              ELSE Len(Def(b).Spec.IBUSpec.OADPContent)
PlanLen(b) == IF b.isNil \/ b.Definition = NilPtr THEN 0 ELSE Len(Def(b).Spec.Plan)

ConfigStep(op, b) ==
    /\ builder' = b
    /\ call' = Call(op, NoError, FALSE, <<>>, <<>>, FALSE)
    /\ UNCHANGED <<cluster, clean, nodeConfig>>

DoWithClusterLabelSelectors ==
    /\ Alive
    /\ \E b \in { WithClusterLabelSelectors(builder, labels) : labels \in LabelArgs } :
          ConfigStep("WithClusterLabelSelectors", b)

DoWithSeedImageRef ==
    /\ Alive
    /\ \E b \in { WithSeedImageRef(builder, a[1], a[2]) : a \in SeedArgs } :
          ConfigStep("WithSeedImageRef", b)

DoWithOadpContent ==
    /\ Alive
    /\ OadpLen(builder) + PlanLen(builder) < MaxEntries
    /\ \E b \in { WithOadpContent(builder, a[1], a[2]) : a \in OadpArgs } :
          ConfigStep("WithOadpContent", b)

DoWithPlan ==
    /\ Alive
    /\ OadpLen(builder) + PlanLen(builder) < MaxEntries
    /\ \E b \in { WithPlan(builder, a[1], a[2], a[3]) : a \in PlanArgs } :
          ConfigStep("WithPlan", b)

DoGet ==
    /\ Alive
    /\ \E r \in { Get(builder, cluster, getOutcome) : getOutcome \in Outcomes } :
          /\ builder' = r.b
          /\ call' = Call("Get", r.err, FALSE, r.obj, r.reqs, FALSE)
          /\ UNCHANGED <<cluster, clean, nodeConfig>>

DoExists ==
    /\ Alive
    /\ \E r \in { Exists(builder, cluster, getOutcome) : getOutcome \in Outcomes } :
          /\ builder' = r.b
          /\ call' = Call("Exists", NoError, r.ok, <<>>, r.reqs, FALSE)
          /\ UNCHANGED <<cluster, clean, nodeConfig>>

DoCreate ==
    /\ Alive
    /\ \E r \in { Create(builder, cluster, getOutcome, createOutcome) :
                      getOutcome \in Outcomes, createOutcome \in Outcomes } :
          /\ builder' = r.b
          /\ cluster' = r.store
          /\ call' = Call("Create", r.err, FALSE, <<>>, r.reqs, FALSE)
          /\ UNCHANGED <<clean, nodeConfig>>

DoDelete ==
    /\ Alive
    /\ \E r \in { Delete(builder, cluster, getOutcome, deleteOutcome) :
                      getOutcome \in Outcomes, deleteOutcome \in Outcomes } :
          /\ builder' = r.b
          /\ cluster' = r.store
          /\ call' = Call("Delete", r.err, FALSE, <<>>, r.reqs, r.panic)
          /\ UNCHANGED <<clean, nodeConfig>>

Next ==
    \/ DoWithClusterLabelSelectors
    \/ DoWithSeedImageRef
    \/ DoWithOadpContent
    \/ DoWithPlan
    \/ DoGet
    \/ DoExists
    \/ DoCreate
    \/ DoDelete

Spec == Init /\ [][Next]_vars

----------------------------------------------------------------------------
(* One run of ListPolicy or of CleanAllNetworkNodePolicies: its arguments, the    *)
(* server's policies and the deletions that will fail are drawn at the start.     *)

InitClean ==
    /\ builder = NilBuilder
    /\ cluster = {}
    /\ call = Call("NewIbguBuilder", NoError, FALSE, <<>>, <<>>, FALSE)
    /\ \E ns \in OperatorNsArgs, o \in Outcomes, st \in PolicyStores,
          f \in SUBSET (PolicyNames \ {"default"}) :
          clean = [CleanIdle EXCEPT !.pc = "ready", !.nsname = ns, !.listOutcome = o,
                                    !.failing = f, !.before = st, !.store = st]
    /\ nodeConfig = NodeConfigIdle

DoCleanAllNetworkNodePolicies ==
    /\ clean.pc = "ready"
    /\ LET r == CleanAllNetworkNodePolicies(clean.store, clean.nsname,
                                             clean.listOutcome, clean.failing)
       IN  clean' = [clean EXCEPT !.pc = "done", !.store = r.store,
                                  !.attempted = r.attempted, !.lists = r.lists,
                                  !.err = r.err]
    /\ UNCHANGED <<builder, cluster, call, nodeConfig>>

DoListPolicy ==
    /\ clean.pc = "ready"
    /\ LET r == ListPolicy(clean.store, clean.nsname, clean.listOutcome)
       IN  clean' = [clean EXCEPT !.pc = "listed", !.builders = r.builders,
                                  !.copies = r.copies, !.lists = r.lists, !.err = r.err]
    /\ UNCHANGED <<builder, cluster, call, nodeConfig>>

NextClean ==
    \/ DoCleanAllNetworkNodePolicies
    \/ DoListPolicy

SpecClean == InitClean /\ [][NextClean]_vars

----------------------------------------------------------------------------
(* One call of NewNodeConfigBuilder, its arguments drawn at the start. *)

InitNodeConfig ==
    /\ builder = NilBuilder
    /\ cluster = {}
    /\ call = Call("NewIbguBuilder", NoError, FALSE, <<>>, <<>>, FALSE)
    /\ clean = CleanIdle
    /\ \E c \in BOOLEAN, node \in NodeNameArgs, ns \in FecNsArgs :
          nodeConfig = [NodeConfigIdle EXCEPT !.pc = "ready", !.haveClient = c,
                                              !.nodeName = node, !.nsname = ns]

DoNewNodeConfigBuilder ==
    /\ nodeConfig.pc = "ready"
    /\ nodeConfig' = [nodeConfig EXCEPT
            !.pc = "made",
            !.made = NewNodeConfigBuilder(nodeConfig.haveClient, nodeConfig.nodeName,
                                          nodeConfig.nsname)]
    /\ UNCHANGED <<builder, cluster, call, clean>>

NextNodeConfig == DoNewNodeConfigBuilder

SpecNodeConfig == InitNodeConfig /\ [][NextNodeConfig]_vars

----------------------------------------------------------------------------
(* What the claims speak of. *)

WithOps == {"WithClusterLabelSelectors", "WithSeedImageRef", "WithOadpContent", "WithPlan"}

\* The messages a With* call records on invalid arguments.
ConfigErrors ==
    { "can not apply empty cluster label selectors to the IBGU",
      "seedImage cannot be empty", "seedVersion cannot be empty",
      "oadp content name cannot be empty", "oadp content namespace cannot be empty",
      "plan actions cannot be empty", "maxConcurrency must be greater than 0",
      "timeout must be greater than 0" }

\* The struct Definition points to and the struct Object points to, <<>> for nil.
DefinitionValue(b) == Deref(b, b.Definition)
ObjectValue(b) == Deref(b, b.Object)

\* The requests of a call with the given verb.
Issued(c, verb) == { i \in 1..Len(c.reqs) : c.reqs[i].verb = verb }

\* The resource the server holds under the builder's name and namespace, as a set.
Stored(b, store) == Lookup(store, Def(b).Name, Def(b).Namespace)

----------------------------------------------------------------------------
(* C1: once a configuration call has failed and recorded an error, every later    *)
(* call leaves Definition, the recorded error and the cluster as they are and     *)
(* issues no request; Get, Create and Delete return the recorded message and      *)
(* Exists returns false.                                                          *)
C1_RecordedErrorIsSticky ==
    [][ (~builder.isNil /\ builder.errorMsg \in ConfigErrors) =>
           /\ DefinitionValue(builder') = DefinitionValue(builder)
           /\ builder'.errorMsg = builder.errorMsg
           /\ cluster' = cluster
           /\ call'.reqs = <<>>
           /\ ~call'.panic
           /\ call'.op \in {"Get", "Create", "Delete"} => call'.err = builder.errorMsg
           /\ call'.op = "Get" => call'.ret = <<>>
           /\ call'.op = "Exists" => ~call'.ok ]_vars

\* A Delete on a builder with a recorded argument error, the resource being in the
\* cluster: it returned the recorded message.
C1_Witness ==
    /\ builder.errorMsg = "plan actions cannot be empty"
    /\ call.op = "Delete"
    /\ call.err = builder.errorMsg
    /\ cluster # {}

(* C2: two valid configuration calls that are not both appends to the same        *)
(* ordered collection yield the same Definition in either order, from every       *)
(* state of a valid builder.                                                      *)
ConfigCalls ==
    { <<"WithClusterLabelSelectors", a>> : a \in LabelArgs }
        \cup { <<"WithSeedImageRef", a>> : a \in SeedArgs }
        \cup { <<"WithOadpContent", a>> : a \in OadpArgs }
        \cup { <<"WithPlan", a>> : a \in PlanArgs }

Apply(b, c) ==
    CASE c[1] = "WithClusterLabelSelectors" -> WithClusterLabelSelectors(b, c[2])
      [] c[1] = "WithSeedImageRef" -> WithSeedImageRef(b, c[2][1], c[2][2])
      [] c[1] = "WithOadpContent" -> WithOadpContent(b, c[2][1], c[2][2])
      [] c[1] = "WithPlan" -> WithPlan(b, c[2][1], c[2][2], c[2][3])

\* The argument checks of the call pass.
ValidCall(b, c) == Apply(b, c).errorMsg = ""

BothAppendToSame(c, d) == c[1] = d[1] /\ c[1] \in {"WithOadpContent", "WithPlan"}

C2_OrderIndependent ==
    validate(builder).valid =>
        \A c \in ConfigCalls, d \in ConfigCalls :
            (ValidCall(builder, c) /\ ValidCall(builder, d) /\ ~BothAppendToSame(c, d)) =>
                DefinitionValue(Apply(Apply(builder, c), d))
                    = DefinitionValue(Apply(Apply(builder, d), c))

(* C3: Object is nil or the value of the latest successful cluster read; in       *)
(* particular a With* call does not change what Object holds.                     *)
C3_WithLeavesObject ==
    [][ call'.op \in WithOps => ObjectValue(builder') = ObjectValue(builder) ]_vars

(* C4: on a valid builder, Create on a cluster that holds the resource issues no  *)
(* create request and returns nil; on a cluster that does not hold it and whose   *)
(* requests succeed, Create issues exactly one create request, carrying the       *)
(* Definition, the server stores it and Object becomes the Definition.            *)
C4_CreateSkipsExisting ==
    [][ (call'.op = "Create" /\ validate(builder).valid) =>
           /\ Stored(builder, cluster) # {} =>
                 /\ Issued(call', "create") = {}
                 /\ call'.err = NoError
                 /\ cluster' = cluster
           /\ (Stored(builder, cluster) = {}
                 /\ \A i \in 1..Len(call'.reqs) : call'.reqs[i].err # ErrServer) =>
                 /\ Cardinality(Issued(call', "create")) = 1
                 /\ \A i \in Issued(call', "create") :
                       call'.reqs[i].obj = DefinitionValue(builder)
                 /\ call'.err = NoError
                 /\ builder'.Object = builder'.Definition
                 /\ cluster' = cluster \cup {Def(builder)} ]_vars

\* A Create that found the resource (fetched into Object) and issued no create request.
C4_Witness ==
    /\ call.op = "Create"
    /\ call.err = NoError
    /\ Len(call.reqs) = 1 /\ call.reqs[1].verb = "get" /\ call.reqs[1].err = NoError
    /\ builder.Object = ObjAddr
    /\ ObjectValue(builder) = DefinitionValue(builder)

\* The call issued a delete request and the request returned an error.
DeleteRequestFailed(c) ==
    c.op = "Delete" /\ \E i \in Issued(c, "delete") : c.reqs[i].err # NoError

(* C5 as stated: when the delete request fails, Delete returns that error and     *)
(* Object holds after the call what it held before it.                            *)
C5_FailedDeleteLeavesObject ==
    [][ DeleteRequestFailed(call') =>
           /\ \A i \in Issued(call', "delete") : call'.err = call'.reqs[i].err
           /\ ObjectValue(builder') = ObjectValue(builder) ]_vars

(* C5, amended: when the delete request fails, Delete returns that error, the     *)
(* cluster is as before and Object is not cleared: it holds what the Get of the   *)
(* call's existence check returned, the fetched resource or nil.                  *)
C5_FailedDeleteKeepsFetched ==
    [][ DeleteRequestFailed(call') =>
           /\ \A i \in Issued(call', "delete") : call'.err = call'.reqs[i].err
           /\ cluster' = cluster
           /\ call'.reqs[1].verb = "get"
           /\ call'.reqs[1].err = NoError =>
                 ObjectValue(builder') \in { <<r>> : r \in Stored(builder, cluster) }
           /\ call'.reqs[1].err # NoError => ObjectValue(builder') = <<>> ]_vars

\* A Delete whose delete request failed: Object holds the resource just fetched.
C5_Witness ==
    /\ DeleteRequestFailed(call)
    /\ call.err = ErrServer
    /\ call.reqs[1].err = NoError
    /\ builder.Object = ObjAddr
    /\ ObjectValue(builder) # DefinitionValue(builder)

(* C6: on a valid builder, Delete with the resource absent from the cluster       *)
(* issues no delete request, sets Object to nil, returns nil and leaves the       *)
(* cluster unchanged (so repeated Deletes are no-ops).                            *)
C6_DeleteIdempotent ==
    [][ (call'.op = "Delete" /\ validate(builder).valid /\ Stored(builder, cluster) = {}) =>
           /\ Issued(call', "delete") = {}
           /\ builder'.Object = NilPtr
           /\ call'.err = NoError
           /\ ~call'.panic
           /\ cluster' = cluster ]_vars

(* C7: Exists on an invalid builder returns false, issues no request and leaves   *)
(* the builder as it is; otherwise it issues one get, stores its result into      *)
(* Object (the fetched resource, nil on any error) and returns true exactly when  *)
(* the get returned no error or an error that is not not-found.                   *)
C7_ExistsContract ==
    [][ call'.op = "Exists" =>
           IF ~validate(builder).valid
           THEN ~call'.ok /\ call'.reqs = <<>> /\ builder' = builder /\ cluster' = cluster
           ELSE /\ Len(call'.reqs) = 1
                /\ call'.reqs[1].verb = "get"
                /\ call'.reqs[1].name = Def(builder).Name
                /\ call'.reqs[1].namespace = Def(builder).Namespace
                /\ call'.reqs[1].err = NoError =>
                      ObjectValue(builder') \in { <<r>> : r \in Stored(builder, cluster) }
                /\ call'.reqs[1].err # NoError => builder'.Object = NilPtr
                /\ call'.ok = (call'.reqs[1].err = NoError \/ call'.reqs[1].err # ErrNotFound)
                /\ DefinitionValue(builder') = DefinitionValue(builder)
                /\ builder'.errorMsg = builder.errorMsg
                /\ cluster' = cluster ]_vars

\* An Exists whose get failed with a server error: it returned true, Object is nil.
C7_Witness ==
    /\ call.op = "Exists"
    /\ call.ok
    /\ Len(call.reqs) = 1 /\ call.reqs[1].err = ErrServer
    /\ builder.Object = NilPtr
    /\ cluster # {}

(* C8: Get leaves the builder (Object, Definition, error slot) as it is; on       *)
(* success it returns the resource stored under the builder's name and namespace  *)
(* and a nil error, on a cluster error nil and that error.                        *)
C8_GetLeavesBuilder ==
    [][ call'.op = "Get" =>
           /\ builder' = builder
           /\ cluster' = cluster
           /\ validate(builder).valid =>
                 /\ Len(call'.reqs) = 1
                 /\ call'.reqs[1].verb = "get"
                 /\ call'.err = call'.reqs[1].err
                 /\ call'.err = NoError => call'.ret \in { <<r>> : r \in Stored(builder, cluster) }
                 /\ call'.err # NoError => call'.ret = <<>> ]_vars

\* A successful Get on a builder whose Object is nil: Object is still nil.
C8_Witness ==
    /\ call.op = "Get"
    /\ call.err = NoError
    /\ call.ret # <<>>
    /\ builder.Object = NilPtr

----------------------------------------------------------------------------
(* CleanAllNetworkNodePolicies. *)

\* The names of the policies the list call returns, in its order, without "default".
Listed == [i \in 1..Len(clean.before) |-> clean.before[i].Name]
NonDefault == SelectSeq(Listed, LAMBDA n : n # "default")

\* How often Delete was called on the policy of that name.
DeleteCalls(n) == Cardinality({ i \in 1..Len(clean.attempted) : clean.attempted[i] = n })

\* The run got its list: the namespace is not empty and the list call succeeded.
CleanListed == clean.pc = "done" /\ clean.nsname # "" /\ clean.listOutcome = "ok"

(* C9: when the list call returns its policies and every deletion succeeds,       *)
(* CleanAllNetworkNodePolicies calls Delete exactly once on each policy not named *)
(* "default", never on "default", and returns nil.                                *)
C9_CleansAllButDefault ==
    (CleanListed /\ \A i \in 1..Len(NonDefault) : NonDefault[i] \notin clean.failing) =>
        /\ clean.err = NoError
        /\ \A n \in PolicyNames :
              DeleteCalls(n) = IF n # "default" /\ \E i \in 1..Len(Listed) : Listed[i] = n
                               THEN 1 ELSE 0

\* A run over three policies, "default" among them: two Delete calls, nil returned.
C9_Witness ==
    /\ CleanListed
    /\ clean.err = NoError
    /\ Len(clean.before) = 3
    /\ \E i \in 1..Len(Listed) : Listed[i] = "default"
    /\ Len(clean.attempted) = 2
    /\ Len(clean.store) = 1

\* The position in NonDefault of the first policy whose deletion fails, 0 if none does.
FirstFailing ==
    IF \E i \in 1..Len(NonDefault) : NonDefault[i] \in clean.failing
    THEN CHOOSE i \in 1..Len(NonDefault) :
            /\ NonDefault[i] \in clean.failing
            /\ \A j \in 1..(i - 1) : NonDefault[j] \notin clean.failing
    ELSE 0

(* C10: CleanAllNetworkNodePolicies deletes in list order and stops at the first  *)
(* failure: it returns that deletion's error, Delete is called on no later        *)
(* policy, and the policies deleted before stay deleted; with an empty namespace  *)
(* or a failed list call it returns an error and calls Delete on nothing.         *)
C10_StopsAtFirstFailure ==
    clean.pc = "done" =>
        IF clean.nsname = ""
        THEN clean.err # NoError /\ clean.attempted = <<>> /\ clean.lists = 0
                /\ clean.store = clean.before
        ELSE IF clean.listOutcome # "ok"
        THEN clean.err = ErrServer /\ clean.attempted = <<>> /\ clean.store = clean.before
        ELSE /\ clean.attempted = IF FirstFailing = 0 THEN NonDefault
                                   ELSE SubSeq(NonDefault, 1, FirstFailing)
             /\ clean.err = IF FirstFailing = 0 THEN NoError ELSE ErrServer
             /\ clean.store = SelectSeq(clean.before,
                    LAMBDA p : ~\E i \in 1..Len(clean.attempted) :
                                  /\ clean.attempted[i] = p.Name
                                  /\ p.Name \notin clean.failing)

\* A run that deleted one policy, failed on the second and left the third alone.
C10_Witness ==
    /\ CleanListed
    /\ clean.err = ErrServer
    /\ Len(clean.before) = 3
    /\ Len(clean.attempted) = 2
    /\ Len(clean.store) = 2
    /\ \A i \in 1..Len(Listed) : Listed[i] # "default"

----------------------------------------------------------------------------
(* The deferred error slot of a freshly constructed NodeConfigBuilder. *)

\* The message of the first check of NewNodeConfigBuilder that fails on the
\* arguments: nodeName is checked first, nsname second.
FirstNodeConfigFailure(nodeName, nsname) ==
    IF nodeName = "" THEN ErrEmptyNodeName
    ELSE IF nsname = "" THEN ErrEmptyFecNs
    ELSE NoError

\* C11: the deferred error slot holds the message of the first validation failure
\* and is never replaced once it is non-empty; a constructor called with both
\* identifying fields empty records the failure of the field it checks first.
\* For NewNodeConfigBuilder the first check is the one of nodeName.
C11_SlotHoldsFirstFailure ==
    nodeConfig.pc = "made" =>
        nodeConfig.made.errorMsg =
            FirstNodeConfigFailure(nodeConfig.nodeName, nodeConfig.nsname)

----------------------------------------------------------------------------
(* The order of the checks of validate. *)

\* The error of the first of the four conditions that fails on b, in the order nil
\* builder, nil Definition, nil API client, recorded error; NoError when none fails.
FirstFailedCheck(b) ==
    IF b.isNil THEN "error: received nil ibgu builder"
    ELSE IF b.Definition = NilPtr THEN "can not redefine the undefined ibgu"
    ELSE IF ~b.apiClient THEN "ibgu builder cannot have nil apiClient"
    ELSE b.errorMsg

\* C12: validate checks, in this order, nil builder, nil Definition, nil API client,
\* recorded error, and reports the first that fails, also when several fail at
\* once.  A call on a builder that fails a check ends there: it changes neither
\* builder nor cluster, issues no request, does not crash (no field behind a nil
\* builder or a nil Definition is read), and Get, Create and Delete return the
\* error of that first check.
C12_ValidateOrder ==
    [][ FirstFailedCheck(builder) # NoError =>
            /\ builder' = builder
            /\ cluster' = cluster
            /\ call'.reqs = <<>>
            /\ ~call'.panic
            /\ call'.op \in {"Get", "Create", "Delete"} =>
                    call'.err = FirstFailedCheck(builder)
            /\ call'.op = "Get" => call'.ret = <<>>
            /\ call'.op = "Exists" => ~call'.ok ]_vars

\* A Get on a builder with a nil API client and a recorded error: two checks fail,
\* the earlier one is reported.
C12_Witness ==
    /\ call.op = "Get"
    /\ ~builder.isNil
    /\ builder.Definition # NilPtr
    /\ ~builder.apiClient
    /\ builder.errorMsg # NoError
    /\ call.err = "ibgu builder cannot have nil apiClient"

----------------------------------------------------------------------------
(* The plan accumulated by WithPlan. *)

\* The arguments WithPlan accepts, and the plan item it makes of them.
ValidPlanArgs == { a \in PlanArgs : Len(a[1]) > 0 /\ a[2] > 0 /\ a[3] > 0 }
PlanItem(a) ==
    [Actions |-> a[1], RolloutStrategy |-> [MaxConcurrency |-> a[2], Timeout |-> a[3]]]

\* Definition.Spec.Plan of a builder that has a Definition.
PlanOf(b) == b.heap[b.Definition].Spec.Plan

----------------------------------------------------------------------------
(* What a With* call may change. *)

\* C14: on a valid builder, a With* call with invalid arguments records a non-empty
\* error and leaves what Definition and Object hold as it was; a With* call with
\* valid arguments changes only what Definition holds, leaving what Object holds
\* and the error slot as they were.  Either way the builder returned is the one
\* the call was made on: its pointers and its API client are the same.
C14_WithChangesOnlyDefinition ==
    [][ (call'.op \in WithOps /\ FirstFailedCheck(builder) = NoError) =>
            /\ builder'.isNil = builder.isNil
            /\ builder'.Definition = builder.Definition
            /\ builder'.Object = builder.Object
            /\ builder'.apiClient = builder.apiClient
            /\ ObjectValue(builder') = ObjectValue(builder)
            /\ \/ builder'.errorMsg = NoError
               \/ /\ builder'.errorMsg \in ConfigErrors
                  /\ DefinitionValue(builder') = DefinitionValue(builder) ]_vars

----------------------------------------------------------------------------
(* ListPolicy. *)

\* C15: ListPolicy called with an empty namespace returns a nil collection and a
\* non-nil error and sends no list request; when its list request fails it
\* returns a nil collection and the error of that request.
C15_ListPolicyErrors ==
    clean.pc = "listed" =>
        /\ clean.nsname = "" =>
               /\ clean.builders = <<>>
               /\ clean.err # NoError
               /\ clean.lists = 0
        /\ (clean.nsname # "" /\ clean.listOutcome = "fail") =>
               /\ clean.builders = <<>>
               /\ clean.err = ErrServer
               /\ clean.lists = 1

\* ListPolicy was called with an empty namespace on a server holding policies.
C15_Witness ==
    /\ clean.pc = "listed"
    /\ clean.nsname = ""
    /\ Len(clean.before) > 0
    /\ clean.err = ErrEmptyListNs
    /\ clean.lists = 0

\* C16: when the list request returns the items i1..in, ListPolicy returns n
\* builders in that order, the k-th holding a copy of ik in Object and Definition,
\* and no two builders share the storage of their item.
C16_ListPolicyCopies ==
    (clean.pc = "listed" /\ clean.nsname # "" /\ clean.listOutcome = "ok") =>
        /\ clean.err = NoError
        /\ Len(clean.builders) = Len(clean.before)
        /\ \A k \in 1..Len(clean.builders) :
               /\ clean.builders[k].Object \in 1..Len(clean.copies)
               /\ clean.builders[k].Definition \in 1..Len(clean.copies)
               /\ clean.copies[clean.builders[k].Object] = clean.before[k]
               /\ clean.copies[clean.builders[k].Definition] = clean.before[k]
        /\ \A j \in 1..Len(clean.builders), k \in 1..Len(clean.builders) :
               j # k =>
                   {clean.builders[j].Object, clean.builders[j].Definition}
                       \cap {clean.builders[k].Object, clean.builders[k].Definition} = {}

\* ListPolicy returned three builders, "default" among them.
C16_Witness ==
    /\ clean.pc = "listed"
    /\ clean.err = NoError
    /\ Len(clean.builders) = 3
    /\ \E k \in 1..3 : clean.copies[clean.builders[k].Object].Name = "default"

----------------------------------------------------------------------------
(* Builders made with an empty identifying field. *)

\* The messages NewIbguBuilder records.
ConstructionErrors == {"ibgu 'name' cannot be empty", "ibgu 'nsname' cannot be empty"}

\* NewNodeConfigBuilder, given a cluster handle and an empty nodeName or nsname,
\* returns a builder with a non-empty error slot.
NodeConfigFailsClosed ==
    \A node \in NodeNameArgs, ns \in FecNsArgs :
        (node = "" \/ ns = "") =>
            /\ ~NewNodeConfigBuilder(TRUE, node, ns).isNil
            /\ NewNodeConfigBuilder(TRUE, node, ns).errorMsg # NoError

\* The builder is the one NewIbguBuilder made with an empty name or namespace, and
\* every call so far has left it so.
HoldsConstructionError ==
    /\ ~builder.isNil
    /\ builder.Definition # NilPtr
    /\ builder.apiClient
    /\ builder.errorMsg \in ConstructionErrors

\* A call on a builder holding a construction error completes without crashing,
\* leaves builder and cluster alone, issues no request and reports that error.
ReportsConstructionError ==
    HoldsConstructionError =>
        /\ builder' = builder
        /\ cluster' = cluster
        /\ call'.reqs = <<>>
        /\ ~call'.panic
        /\ call'.op \in {"Get", "Create", "Delete"} => call'.err = builder.errorMsg
        /\ call'.op = "Get" => call'.ret = <<>>
        /\ call'.op = "Exists" => ~call'.ok

\* C17, as the claim has it: a constructor given a cluster handle and an empty
\* identifying field returns a non-nil builder with a non-empty error slot, and on
\* such an IbguBuilder every later call completes without crashing, reports the
\* construction error (Exists reports false) and issues no cluster request.
C17_EmptyFieldBuilderUsable ==
    /\ [](/\ NodeConfigFailsClosed
          /\ (/\ call.op = "NewIbguBuilder"
              /\ call.args[1]
              /\ (call.args[3] = "" \/ call.args[4] = "")) =>
                 (~builder.isNil /\ builder.errorMsg # NoError))
    /\ [][ReportsConstructionError]_vars

\* C17, amended: the same, for NewIbguBuilder when registering the scheme with the
\* cluster handle (AttachScheme) succeeds; when it fails NewIbguBuilder returns nil
\* whatever the name and the namespace are.
C17_EmptyFieldBuilderUsableWithScheme ==
    /\ [](/\ NodeConfigFailsClosed
          /\ (/\ call.op = "NewIbguBuilder"
              /\ call.args[1]
              /\ ~call.args[2]
              /\ (call.args[3] = "" \/ call.args[4] = "")) =>
                 (~builder.isNil /\ builder.errorMsg \in ConstructionErrors))
    /\ [][ReportsConstructionError]_vars

\* A Create on a builder that NewIbguBuilder made with an empty name, on a cluster
\* holding a resource: the construction error is returned, no request is issued.
C17_Witness ==
    /\ call.op = "Create"
    /\ HoldsConstructionError
    /\ builder.errorMsg = "ibgu 'name' cannot be empty"
    /\ call.err = "ibgu 'name' cannot be empty"
    /\ call.reqs = <<>>
    /\ cluster # {}

----------------------------------------------------------------------------
(* The requests of one call. *)

\* C18: no call retries a request.  Get and Exists issue at most one get request
\* and nothing else; Create at most one get and one create request; Delete at most
\* one get and one delete request; and when a create or delete request fails, the
\* call that issued it returns that same error.
C18_NoRetries ==
    [][ /\ Cardinality(Issued(call', "get")) <= 1
        /\ Cardinality(Issued(call', "create")) <= 1
        /\ Cardinality(Issued(call', "delete")) <= 1
        /\ call'.op \in {"Get", "Exists"} => Len(call'.reqs) = Cardinality(Issued(call', "get"))
        /\ call'.op = "Create" => Issued(call', "delete") = {}
        /\ call'.op = "Delete" => Issued(call', "create") = {}
        /\ call'.op \in WithOps => call'.reqs = <<>>
        /\ \A i \in Issued(call', "create") \cup Issued(call', "delete") :
               (call'.reqs[i].err # NoError /\ ~call'.panic) =>
                   call'.err = call'.reqs[i].err ]_vars

\* A Create whose get answered not-found and whose create request failed: two
\* requests, the error of the second returned.
C18_Witness ==
    /\ call.op = "Create"
    /\ Len(call.reqs) = 2
    /\ call.reqs[1].verb = "get"
    /\ call.reqs[1].err = ErrNotFound
    /\ call.reqs[2].verb = "create"
    /\ call.reqs[2].err = ErrServer
    /\ call.err = ErrServer

----------------------------------------------------------------------------
(* What a nil error of Create means, and what Delete sends. *)

\* C19: whenever Create on a valid builder returns a nil error, whatever the get
\* and create requests answered, Object is not nil and the resource of the
\* builder's name is in the cluster.
C19_CreatedMeansPresent ==
    [][ (/\ call'.op = "Create"
         /\ FirstFailedCheck(builder) = NoError
         /\ call'.err = NoError) =>
            /\ builder'.Object # NilPtr
            /\ Stored(builder', cluster') # {} ]_vars

\* C20: Delete never issues a delete request with a nil Object.
C20_DeleteSendsAnObject ==
    [][ call'.op = "Delete" =>
            \A i \in Issued(call', "delete") : call'.reqs[i].obj # <<>> ]_vars

====
